---------------------------- MODULE Spec2Model ----------------------------
(***************************************************************************)
(* Model of custom_components/frigate/ws_api.py: three websocket command   *)
(* handlers (frigate/event/retain, frigate/recordings/get,                 *)
(* frigate/recordings/summary) that resolve a Frigate instance, call one   *)
(* method of its API client and answer on the connection.                  *)
(*                                                                         *)
(* A request is handled in steps, exactly where the code can be suspended: *)
(*   Receive      the message arrives; the command's schema (the           *)
(*                websocket_command decorator) accepts it and the handler  *)
(*                is scheduled (async_response), or rejects it;            *)
(*   *_start      the handler runs up to its only await: the registry      *)
(*                lookup, the not-found answer, or the backend call;       *)
(*   *_return     the awaited call returns and send_result runs;           *)
(*   *_raise      the awaited call raises and the except clause runs.      *)
(* Requests on the connection are numbered in arrival order and the number *)
(* is the message's "id" (as in the tests: 1, 2, ...).                     *)
(***************************************************************************)
EXTENDS Naturals, Sequences, FiniteSets

VARIABLES
    registry,   \* instance ids that currently have a client (config entries)
    reqs,       \* messages received on the connection, in arrival order
    pc,         \* per request: "scheduled", "awaiting", "done", "faulted"
    client,     \* per request: the handler's local `client`
    lookups,    \* per request: how many times the registry was consulted
    calls,      \* backend method invocations, in call order
    out         \* envelopes sent on the connection, in send order

vars == <<registry, reqs, pc, client, lookups, calls, out>>

\* ------------------------------------------------------------------ bounds
MaxReq == 2

\* ------------------------------------------------------------------ values
\* Python values, tagged by type so that a type check is a test on the tag.
Str(s) == [k |-> "str", s |-> s, n |-> 0]
Int(i) == [k |-> "int", s |-> "", n |-> i]
Bool(b) == [k |-> "bool", s |-> IF b THEN "True" ELSE "False", n |-> 0]
Dict(s) == [k |-> "dict", s |-> s, n |-> 0]
\* A key that the message does not have.
ABSENT == [k |-> "absent", s |-> "", n |-> 0]
\* Python's None.
NONE == [k |-> "none", s |-> "", n |-> 0]
\* The outcome of a call that has not finished / that raised.
PENDING == [k |-> "pending", s |-> "", n |-> 0]
Raised(exc) == [k |-> "raised", s |-> exc, n |-> 0]

NoClient == "None"

ERR_NOT_FOUND == "not_found"
ERR_INVALID_FORMAT == "invalid_format"
ERR_FRIGATE == "frigate_error"

TYPE_RETAIN == "frigate/event/retain"
TYPE_RECORDINGS == "frigate/recordings/get"
TYPE_SUMMARY == "frigate/recordings/summary"

\* ------------------------------------------------------------------ inputs
InstanceIds == {"inst_a", "inst_b"}
TEST_EVENT_ID == Str("1656282822.206673-bovnfg")
TEST_CAMERA == Str("front_door")

\* The "id" key is set by Receive: the request's arrival number.
Message(type, inst, ev, cam, ret, aft, bef) ==
    [id |-> 0, type |-> type, instance_id |-> inst, event_id |-> ev, camera |-> cam,
     retain |-> ret, after |-> aft, before |-> bef]

RetainMsgs ==
    {Message(TYPE_RETAIN, Str("inst_a"), TEST_EVENT_ID, ABSENT, Bool(b), ABSENT, ABSENT) :
        b \in BOOLEAN}
    \* missing arguments (test_retain_missing_args)
    \cup {Message(TYPE_RETAIN, ABSENT, ABSENT, ABSENT, ABSENT, ABSENT, ABSENT)}

RecordingsMsgs ==
    {Message(TYPE_RECORDINGS, Str("inst_a"), ABSENT, TEST_CAMERA, ABSENT, w[1], w[2]) :
        w \in {<<Int(1), Int(2)>>, <<ABSENT, Int(2)>>}}
    \* a field of the wrong type
    \cup {Message(TYPE_RECORDINGS, Str("inst_a"), ABSENT, TEST_CAMERA, ABSENT, Str("1"), ABSENT)}

SummaryMsgs ==
    {Message(TYPE_SUMMARY, Str("inst_b"), ABSENT, TEST_CAMERA, ABSENT, ABSENT, ABSENT),
     \* one required field missing
     Message(TYPE_SUMMARY, Str("inst_b"), ABSENT, ABSENT, ABSENT, ABSENT, ABSENT)}

Messages == RetainMsgs \cup RecordingsMsgs \cup SummaryMsgs

\* What a backend method can return: an opaque payload.
Payloads == {Dict("success"), Dict("other")}
\* What a backend method can raise: its single error type.
BackendErrors == {"FrigateApiClientError"}

\* ------------------------------------------------------------------ schemas
Required(v, kind) == v.k = kind
Optional(v, kind) == v = ABSENT \/ v.k = kind

\* Variant: every field of the retain schema declared vol.Optional.
retain_schema_optional(m) ==
    /\ m.type = TYPE_RETAIN
    /\ Optional(m.instance_id, "str")
    /\ Optional(m.event_id, "str")
    /\ Optional(m.retain, "bool")

retain_schema(m) ==
    /\ m.type = TYPE_RETAIN
    /\ Required(m.instance_id, "str")
    /\ Required(m.event_id, "str")
    /\ Required(m.retain, "bool")

recordings_schema(m) ==
    /\ m.type = TYPE_RECORDINGS
    /\ Required(m.instance_id, "str")
    /\ Required(m.camera, "str")
    /\ Optional(m.after, "int")
    /\ Optional(m.before, "int")

summary_schema(m) ==
    /\ m.type = TYPE_SUMMARY
    /\ Required(m.instance_id, "str")
    /\ Required(m.camera, "str")

schema_valid(m) == retain_schema(m) \/ recordings_schema(m) \/ summary_schema(m)

\* msg.get(key): None when the key is absent.
msg_get(v) == IF v = ABSENT THEN NONE ELSE v

\* ------------------------------------------------------------------ connection
send_message(o, e) == Append(o, e)

send_result(o, id, result) ==
    send_message(o, [id |-> id, success |-> TRUE, code |-> "", message |-> <<>>,
                     result |-> result])

send_error(o, id, code, message) ==
    send_message(o, [id |-> id, success |-> FALSE, code |-> code, message |-> message,
                     result |-> NONE])

\* ------------------------------------------------------------------ registry
get_client_for_frigate_instance_id(reg, instance_id) ==
    IF instance_id \in reg THEN instance_id ELSE NoClient

\* ------------------------------------------------------------------ handlers
\* Variant: the lookup fails without telling the connection.
get_client_or_send_error_silent(reg, instance_id, msg_id, o) ==
    [client |-> get_client_for_frigate_instance_id(reg, instance_id.s), out |-> o]

\* _get_client_or_send_error: the client it returns and the connection after it.
get_client_or_send_error(reg, instance_id, msg_id, o) ==
    LET c == get_client_for_frigate_instance_id(reg, instance_id.s)
    IN  IF c = NoClient
        THEN [client |-> NoClient,
              out |-> send_error(o, msg_id, ERR_NOT_FOUND,
                          <<"Unable to find Frigate instance with ID: ", instance_id.s>>)]
        ELSE [client |-> c, out |-> o]

\* Variant: the handler goes on to the backend call without a client.
returns_early_never(c) == FALSE

\* `if not client: return`
returns_early(c) == c = NoClient

\* The backend invocation each handler makes.
\* Variant: the arguments are read from the message received last, not from
\* the handler's own.
retain_call_latest_msg(c, m) ==
    [client |-> c, method |-> "async_retain",
     args |-> <<reqs[Len(reqs)].event_id, reqs[Len(reqs)].retain>>]

retain_call(c, m) ==
    [client |-> c, method |-> "async_retain", args |-> <<m.event_id, m.retain>>]

\* Variant: the two bounds passed in the other order.
recordings_call_swapped(c, m) ==
    [client |-> c, method |-> "async_get_recordings",
     args |-> <<m.camera, msg_get(m.before), msg_get(m.after)>>]

recordings_call(c, m) ==
    [client |-> c, method |-> "async_get_recordings",
     args |-> <<m.camera, msg_get(m.after), msg_get(m.before)>>]

summary_call(c, m) ==
    [client |-> c, method |-> "async_get_recordings_summary", args |-> <<m.camera>>]

\* Variant: the awaited value is not passed on.
on_result_drops_value(o, id, value) == send_result(o, id, NONE)

\* Variant: the id of the message received last is used, not the handler's own.
on_result_latest_id(o, id, value) == send_result(o, Len(reqs), value)

\* Variant: the registry is consulted again when the call has returned.
on_result_relookup(o, id, value) ==
    IF get_client_for_frigate_instance_id(registry, reqs[id].instance_id.s) = NoClient
    THEN send_error(o, id, ERR_NOT_FOUND, <<>>)
    ELSE send_result(o, id, value)

\* connection.send_result(msg["id"], <awaited value>)
on_result(o, id, value) == send_result(o, id, value)

\* Variant: an except clause that catches another exception type.
except_matches_other(exc) == exc = "KeyError"

\* `except FrigateApiClientError`
except_matches(exc) == exc = "FrigateApiClientError"

\* Variant: the backend error reported under another code.
on_api_error_unknown(o, id, message) == send_error(o, id, "unknown_error", message)

\* The except clause's connection.send_error(msg["id"], "frigate_error", ...)
on_api_error(o, id, message) == send_error(o, id, ERR_FRIGATE, message)

retain_error_message(m) ==
    <<"API error whilst un/retaining event ", m.event_id.s,
      " for Frigate instance ", m.instance_id.s>>

recordings_error_message(m) ==
    <<"API error whilst retrieving recordings for camera ", m.camera.s,
      " for Frigate instance ", m.instance_id.s>>

summary_error_message(m) ==
    <<"API error whilst retrieving recordings summary for camera ", m.camera.s,
      " for Frigate instance ", m.instance_id.s>>

\* ------------------------------------------------------------------ helpers
Received == 1..Len(reqs)

\* The invocation the handler of request r is awaiting: the last one it made.
CallOf(r) ==
    CHOOSE i \in 1..Len(calls) :
        /\ calls[i].req = r
        /\ \A j \in 1..Len(calls) : calls[j].req = r => j <= i

CallsOf(r) == {i \in 1..Len(calls) : calls[i].req = r}
EnvelopesOf(r) == {i \in 1..Len(out) : out[i].id = r}

\* ------------------------------------------------------------------ initial state
Init ==
    /\ registry = {"inst_a"}
    /\ reqs = <<>>
    /\ pc = <<>>
    /\ client = <<>>
    /\ lookups = <<>>
    /\ calls = <<>>
    /\ out = <<>>

\* ------------------------------------------------------------------ environment
\* A config entry is set up: its client becomes resolvable.
Register(i) ==
    /\ i \notin registry
    /\ registry' = registry \cup {i}
    /\ UNCHANGED <<reqs, pc, client, lookups, calls, out>>

\* A config entry is unloaded: its client is no longer resolvable.
Unregister(i) ==
    /\ i \in registry
    /\ registry' = registry \ {i}
    /\ UNCHANGED <<reqs, pc, client, lookups, calls, out>>

\* ------------------------------------------------------------------ dispatch
\* A message that its command's schema rejects is answered at once.
ReceiveInvalid(m) ==
    /\ Len(reqs) < MaxReq
    /\ ~schema_valid(m)
    /\ LET id == Len(reqs) + 1
       IN  /\ reqs' = Append(reqs, [m EXCEPT !.id = id])
           /\ out' = send_error(out, id, ERR_INVALID_FORMAT, <<"invalid format">>)
    /\ pc' = Append(pc, "done")
    /\ client' = Append(client, NoClient)
    /\ lookups' = Append(lookups, 0)
    /\ UNCHANGED <<registry, calls>>

\* A message that its command's schema accepts: the handler is scheduled.
ReceiveValid(m) ==
    /\ Len(reqs) < MaxReq
    /\ schema_valid(m)
    /\ reqs' = Append(reqs, [m EXCEPT !.id = Len(reqs) + 1])
    /\ pc' = Append(pc, "scheduled")
    /\ client' = Append(client, NoClient)
    /\ lookups' = Append(lookups, 0)
    /\ UNCHANGED <<registry, calls, out>>

\* The backend records an invocation made by the handler of request r.
invoke(cs, r, call) ==
    Append(cs, [req |-> r, client |-> call.client, method |-> call.method,
                args |-> call.args, outcome |-> PENDING])

\* ws_retain_event: from entry to the await, or to the early return.
ws_retain_event_start(r) ==
    /\ r \in Received
    /\ pc[r] = "scheduled"
    /\ reqs[r].type = TYPE_RETAIN
    /\ LET got == get_client_or_send_error(registry, reqs[r].instance_id, reqs[r].id, out)
       IN  /\ client' = [client EXCEPT ![r] = got.client]
           /\ lookups' = [lookups EXCEPT ![r] = @ + 1]
           /\ out' = got.out
           /\ IF returns_early(got.client)
              THEN /\ pc' = [pc EXCEPT ![r] = "done"]
                   /\ calls' = calls
              ELSE /\ pc' = [pc EXCEPT ![r] = "awaiting"]
                   /\ calls' = invoke(calls, r, retain_call(got.client, reqs[r]))
    /\ UNCHANGED <<registry, reqs>>

\* ws_retain_event: the awaited call returns `value` and send_result runs.
ws_retain_event_return(r, value) ==
    /\ r \in Received
    /\ pc[r] = "awaiting"
    /\ reqs[r].type = TYPE_RETAIN
    /\ calls' = [calls EXCEPT ![CallOf(r)].outcome = value]
    /\ out' = on_result(out, reqs[r].id, value)
    /\ pc' = [pc EXCEPT ![r] = "done"]
    /\ UNCHANGED <<registry, reqs, client, lookups>>

\* ws_retain_event: the awaited call raises `exc`; the except clause answers, or the
\* exception leaves the handler.
ws_retain_event_raise(r, exc) ==
    /\ r \in Received
    /\ pc[r] = "awaiting"
    /\ reqs[r].type = TYPE_RETAIN
    /\ calls' = [calls EXCEPT ![CallOf(r)].outcome = Raised(exc)]
    /\ IF except_matches(exc)
       THEN /\ out' = on_api_error(out, reqs[r].id, retain_error_message(reqs[r]))
            /\ pc' = [pc EXCEPT ![r] = "done"]
       ELSE /\ out' = out
            /\ pc' = [pc EXCEPT ![r] = "faulted"]
    /\ UNCHANGED <<registry, reqs, client, lookups>>

\* ws_get_recordings: from entry to the await, or to the early return.
ws_get_recordings_start(r) ==
    /\ r \in Received
    /\ pc[r] = "scheduled"
    /\ reqs[r].type = TYPE_RECORDINGS
    /\ LET got == get_client_or_send_error(registry, reqs[r].instance_id, reqs[r].id, out)
       IN  /\ client' = [client EXCEPT ![r] = got.client]
           /\ lookups' = [lookups EXCEPT ![r] = @ + 1]
           /\ out' = got.out
           /\ IF returns_early(got.client)
              THEN /\ pc' = [pc EXCEPT ![r] = "done"]
                   /\ calls' = calls
              ELSE /\ pc' = [pc EXCEPT ![r] = "awaiting"]
                   /\ calls' = invoke(calls, r, recordings_call(got.client, reqs[r]))
    /\ UNCHANGED <<registry, reqs>>

\* ws_get_recordings: the awaited call returns `value` and send_result runs.
ws_get_recordings_return(r, value) ==
    /\ r \in Received
    /\ pc[r] = "awaiting"
    /\ reqs[r].type = TYPE_RECORDINGS
    /\ calls' = [calls EXCEPT ![CallOf(r)].outcome = value]
    /\ out' = on_result(out, reqs[r].id, value)
    /\ pc' = [pc EXCEPT ![r] = "done"]
    /\ UNCHANGED <<registry, reqs, client, lookups>>

\* ws_get_recordings: the awaited call raises `exc`; the except clause answers, or the
\* exception leaves the handler.
ws_get_recordings_raise(r, exc) ==
    /\ r \in Received
    /\ pc[r] = "awaiting"
    /\ reqs[r].type = TYPE_RECORDINGS
    /\ calls' = [calls EXCEPT ![CallOf(r)].outcome = Raised(exc)]
    /\ IF except_matches(exc)
       THEN /\ out' = on_api_error(out, reqs[r].id, recordings_error_message(reqs[r]))
            /\ pc' = [pc EXCEPT ![r] = "done"]
       ELSE /\ out' = out
            /\ pc' = [pc EXCEPT ![r] = "faulted"]
    /\ UNCHANGED <<registry, reqs, client, lookups>>

\* ws_get_recordings_summary: from entry to the await, or to the early return.
ws_get_recordings_summary_start(r) ==
    /\ r \in Received
    /\ pc[r] = "scheduled"
    /\ reqs[r].type = TYPE_SUMMARY
    /\ LET got == get_client_or_send_error(registry, reqs[r].instance_id, reqs[r].id, out)
       IN  /\ client' = [client EXCEPT ![r] = got.client]
           /\ lookups' = [lookups EXCEPT ![r] = @ + 1]
           /\ out' = got.out
           /\ IF returns_early(got.client)
              THEN /\ pc' = [pc EXCEPT ![r] = "done"]
                   /\ calls' = calls
              ELSE /\ pc' = [pc EXCEPT ![r] = "awaiting"]
                   /\ calls' = invoke(calls, r, summary_call(got.client, reqs[r]))
    /\ UNCHANGED <<registry, reqs>>

\* ws_get_recordings_summary: the awaited call returns `value` and send_result runs.
ws_get_recordings_summary_return(r, value) ==
    /\ r \in Received
    /\ pc[r] = "awaiting"
    /\ reqs[r].type = TYPE_SUMMARY
    /\ calls' = [calls EXCEPT ![CallOf(r)].outcome = value]
    /\ out' = on_result(out, reqs[r].id, value)
    /\ pc' = [pc EXCEPT ![r] = "done"]
    /\ UNCHANGED <<registry, reqs, client, lookups>>

\* ws_get_recordings_summary: the awaited call raises `exc`; the except clause answers, or the
\* exception leaves the handler.
ws_get_recordings_summary_raise(r, exc) ==
    /\ r \in Received
    /\ pc[r] = "awaiting"
    /\ reqs[r].type = TYPE_SUMMARY
    /\ calls' = [calls EXCEPT ![CallOf(r)].outcome = Raised(exc)]
    /\ IF except_matches(exc)
       THEN /\ out' = on_api_error(out, reqs[r].id, summary_error_message(reqs[r]))
            /\ pc' = [pc EXCEPT ![r] = "done"]
       ELSE /\ out' = out
            /\ pc' = [pc EXCEPT ![r] = "faulted"]
    /\ UNCHANGED <<registry, reqs, client, lookups>>

Next ==
    \/ \E i \in InstanceIds : Register(i)
    \/ \E i \in InstanceIds : Unregister(i)
    \/ \E m \in Messages : ReceiveInvalid(m)
    \/ \E m \in Messages : ReceiveValid(m)
    \/ \E r \in 1..MaxReq : ws_retain_event_start(r)
    \/ \E r \in 1..MaxReq, v \in Payloads : ws_retain_event_return(r, v)
    \/ \E r \in 1..MaxReq, e \in BackendErrors : ws_retain_event_raise(r, e)
    \/ \E r \in 1..MaxReq : ws_get_recordings_start(r)
    \/ \E r \in 1..MaxReq, v \in Payloads : ws_get_recordings_return(r, v)
    \/ \E r \in 1..MaxReq, e \in BackendErrors : ws_get_recordings_raise(r, e)
    \/ \E r \in 1..MaxReq : ws_get_recordings_summary_start(r)
    \/ \E r \in 1..MaxReq, v \in Payloads : ws_get_recordings_summary_return(r, v)
    \/ \E r \in 1..MaxReq, e \in BackendErrors : ws_get_recordings_summary_raise(r, e)

Spec == Init /\ [][Next]_vars

\* ------------------------------------------------------------------ properties
Finished(r) == pc[r] \in {"done", "faulted"}
EnvelopeOf(r) == out[CHOOSE i \in EnvelopesOf(r) : TRUE]
HasEnvelope(r, code) == \E i \in EnvelopesOf(r) : out[i].code = code
Resolved(r) == CallsOf(r) # {}
OutcomeOf(r) == calls[CallOf(r)].outcome

\* A message that lacks a required field of its command, or has a field of the
\* wrong type (the table of commands: retain-event needs instance_id,
\* event_id, retain(bool); get-recordings needs instance_id, camera and takes
\* after(int), before(int); get-recordings-summary needs instance_id, camera).
Malformed(m) ==
    \/ m.instance_id.k # "str"
    \/ m.type = TYPE_RETAIN /\ (m.event_id.k # "str" \/ m.retain.k # "bool")
    \/ m.type \in {TYPE_RECORDINGS, TYPE_SUMMARY} /\ m.camera.k # "str"
    \/ m.type = TYPE_RECORDINGS /\ m.after.k \notin {"absent", "int"}
    \/ m.type = TYPE_RECORDINGS /\ m.before.k \notin {"absent", "int"}

\* C1: every received request has at most one envelope carrying its id, and
\* exactly one once its handling has finished, on every outcome path; no
\* envelope carries an id that no request has.
C1_ExactlyOneEnvelope ==
    /\ \A r \in Received :
        /\ Cardinality(EnvelopesOf(r)) <= 1
        /\ Finished(r) => Cardinality(EnvelopesOf(r)) = 1
    /\ \A i \in 1..Len(out) : out[i].id \in Received

\* Two requests have finished, one with a result and one with an error.
C1_Witness ==
    \E r, q \in Received :
        /\ Finished(r) /\ Finished(q)
        /\ HasEnvelope(r, "") /\ HasEnvelope(q, ERR_NOT_FOUND)

\* C2: a schema-valid request whose instance_id is not in the registry when
\* its handler runs is answered by that step with a not_found error and no
\* backend method is invoked for it, then or later.
C2_UnknownInstance ==
    /\ [][\A r \in Received :
            (/\ pc[r] = "scheduled"
             /\ pc'[r] # "scheduled"
             /\ reqs[r].instance_id.s \notin registry)
            => /\ pc'[r] = "done"
               /\ Len(out') = Len(out) + 1
               /\ out'[Len(out')].id = reqs[r].id
               /\ out'[Len(out')].success = FALSE
               /\ out'[Len(out')].code = ERR_NOT_FOUND
               /\ calls' = calls]_vars
    /\ [](\A r \in Received : HasEnvelope(r, ERR_NOT_FOUND) => CallsOf(r) = {})

\* A request for an unregistered instance has been answered.
C2_Witness ==
    \E r \in Received :
        /\ ~Malformed(reqs[r])
        /\ pc[r] = "done"
        /\ HasEnvelope(r, ERR_NOT_FOUND)
        /\ reqs[r].instance_id.s \notin registry

\* C3: when a backend call has returned a value, the envelope of its request
\* has success = TRUE, the request's id and exactly that value as result.
C3_ResultVerbatim ==
    \A i \in 1..Len(calls) :
        calls[i].outcome.k = "dict" =>
            /\ Cardinality(EnvelopesOf(calls[i].req)) = 1
            /\ EnvelopeOf(calls[i].req).success = TRUE
            /\ EnvelopeOf(calls[i].req).id = reqs[calls[i].req].id
            /\ EnvelopeOf(calls[i].req).result = calls[i].outcome

\* Both payloads have been returned, to a retain and to a recordings request.
C3_Witness ==
    \E i, j \in 1..Len(calls) :
        /\ calls[i].method = "async_retain" /\ calls[i].outcome = Dict("success")
        /\ calls[j].method # "async_retain" /\ calls[j].outcome = Dict("other")

\* C4: when a backend call has raised FrigateApiClientError, its request has
\* one envelope, an error with code frigate_error, and the backend was
\* invoked once for that request.
C4_BackendError ==
    \A i \in 1..Len(calls) :
        calls[i].outcome = Raised("FrigateApiClientError") =>
            /\ Cardinality(CallsOf(calls[i].req)) = 1
            /\ Cardinality(EnvelopesOf(calls[i].req)) = 1
            /\ EnvelopeOf(calls[i].req).success = FALSE
            /\ EnvelopeOf(calls[i].req).code = ERR_FRIGATE

\* A backend call has raised.
C4_Witness ==
    \E i \in 1..Len(calls) : calls[i].outcome = Raised("FrigateApiClientError")

\* C5: a request that lacks a required field or has a field of the wrong type
\* is answered with an invalid_format error, and neither the registry nor the
\* backend is used for it.
C5_InvalidFormat ==
    \A r \in Received :
        Malformed(reqs[r]) =>
            /\ Cardinality(EnvelopesOf(r)) = 1
            /\ EnvelopeOf(r).success = FALSE
            /\ EnvelopeOf(r).code = ERR_INVALID_FORMAT
            /\ lookups[r] = 0
            /\ client[r] = NoClient
            /\ CallsOf(r) = {}

\* A request with a missing field and one with a field of the wrong type.
C5_Witness ==
    \E r, q \in Received :
        /\ reqs[r].instance_id = ABSENT
        /\ reqs[q].after.k = "str"

\* C6 as claimed: envelopes appear in the order their requests were received.
C6_ArrivalOrder ==
    \A i, j \in 1..Len(out) : i < j => out[i].id < out[j].id

\* C6 as amended: envelopes are emitted in the order in which handling
\* finishes. A step that sends anything appends exactly one envelope behind
\* those already sent, and that envelope is the one of the request whose
\* handling the step finishes.
C6_FinishOrder ==
    [][out' # out =>
        /\ Len(out') = Len(out) + 1
        /\ \A i \in 1..Len(out) : out'[i] = out[i]
        /\ \E r \in 1..Len(reqs') :
            /\ out'[Len(out')].id = r
            /\ pc'[r] = "done"
            /\ r \in Received => pc[r] # "done"]_vars

\* Two requests were in flight together and the later one was answered first.
C6_Witness ==
    \E i, j \in 1..Len(out) :
        /\ i < j
        /\ out[i].id > out[j].id
        /\ Resolved(out[i].id) /\ Resolved(out[j].id)

ExpectedMethod(m) ==
    CASE m.type = TYPE_RETAIN -> "async_retain"
      [] m.type = TYPE_RECORDINGS -> "async_get_recordings"
      [] m.type = TYPE_SUMMARY -> "async_get_recordings_summary"

FirstArg(m) == IF m.type = TYPE_RETAIN THEN m.event_id ELSE m.camera

\* C8: an envelope with a result or a backend error reflects only the call of
\* its own request: the request with the envelope's id made exactly one call,
\* on the instance and with the method and arguments of that request, and the
\* envelope holds that call's outcome.
C8_OwnCallOnly ==
    \A i \in 1..Len(out) :
        out[i].code \in {"", ERR_FRIGATE} =>
            /\ out[i].id \in Received
            /\ Cardinality(CallsOf(out[i].id)) = 1
            /\ LET r == out[i].id
                   c == calls[CallOf(r)]
               IN  /\ c.client = reqs[r].instance_id.s
                   /\ c.method = ExpectedMethod(reqs[r])
                   /\ c.args[1] = FirstArg(reqs[r])
                   /\ reqs[r].type = TYPE_RETAIN => c.args[2] = reqs[r].retain
                   /\ out[i].success => c.outcome = out[i].result
                   /\ ~out[i].success => c.outcome.k = "raised"

\* Two retain requests for the same event, retain true then false, were in
\* flight together and got different results, the second one first.
C8_Witness ==
    \E i, j \in 1..Len(out) :
        /\ i < j
        /\ out[i].id > out[j].id
        /\ reqs[out[i].id].type = TYPE_RETAIN /\ reqs[out[j].id].type = TYPE_RETAIN
        /\ reqs[out[j].id].retain = Bool(TRUE) /\ reqs[out[i].id].retain = Bool(FALSE)
        /\ out[i].success /\ out[j].success
        /\ out[i].result # out[j].result

\* C9: a get-recordings invocation has exactly the arguments (camera, after,
\* before) of its request, in that order; a bound the request does not have
\* is passed as None.
C9_RecordingsArgs ==
    \A i \in 1..Len(calls) :
        calls[i].method = "async_get_recordings" =>
            LET m == reqs[calls[i].req]
            IN  /\ Len(calls[i].args) = 3
                /\ calls[i].args[1] = m.camera
                /\ calls[i].args[2] = (IF m.after.k = "int" THEN m.after ELSE NONE)
                /\ calls[i].args[3] = (IF m.before.k = "int" THEN m.before ELSE NONE)

\* A get-recordings invocation without `after` and one with both bounds.
C9_Witness ==
    \E i, j \in 1..Len(calls) :
        /\ calls[i].method = "async_get_recordings"
        /\ reqs[calls[i].req].after = ABSENT /\ calls[i].args[3] = Int(2)
        /\ calls[j].method = "async_get_recordings"
        /\ calls[j].args[2] = Int(1) /\ calls[j].args[3] = Int(2)

\* C10: the registry is consulted at most once per request and before any
\* backend call; a request that resolved keeps its client whatever happens to
\* the registry and finishes with a result or a frigate_error, never with
\* not_found; a request answered not_found never invokes the backend.
C10_ResolvedOnce ==
    \A r \in Received :
        /\ lookups[r] <= 1
        /\ Resolved(r) =>
            /\ lookups[r] = 1
            /\ client[r] # NoClient
            /\ \A i \in CallsOf(r) : calls[i].client = client[r]
            /\ ~HasEnvelope(r, ERR_NOT_FOUND)
            /\ pc[r] = "done" => (HasEnvelope(r, "") \/ HasEnvelope(r, ERR_FRIGATE))
        /\ HasEnvelope(r, ERR_NOT_FOUND) => ~Resolved(r) /\ pc[r] = "done"

\* One request finished with a result although its instance had been removed
\* from the registry meanwhile; another one got not_found for an instance
\* that is registered now.
C10_Witness ==
    \E r, q \in Received :
        /\ pc[r] = "done" /\ HasEnvelope(r, "") /\ client[r] \notin registry
        /\ HasEnvelope(q, ERR_NOT_FOUND) /\ reqs[q].instance_id.s \in registry

=============================================================================
